---- MODULE Spec2Model ----
(***************************************************************************)
(* Model of the link checker of src/check-links.ts (the circuit-breaker    *)
(* revision, lines 141-365): the record store, the paginated read of the   *)
(* two tables, the staleness sort, the waves of concurrent checks, the     *)
(* per-platform error counters and the run statistics.                     *)
(*                                                                         *)
(* Timestamps are positive integers (milliseconds of the wall clock);      *)
(* NULL is a last_checked column that was never written.                   *)
(***************************************************************************)
EXTENDS Integers, Sequences, FiniteSets, TLC

\* ---------------------------------------------------------------- sizes
\* Program constants, scaled down so that a run has two waves and a wave
\* holds more records than the threshold.
MAX_LINKS_PER_RUN == 4
CONCURRENCY == 3
PLATFORM_ERROR_THRESHOLD == 2
PAGE_SIZE == 2

\* Bounds of the model.
NumShortLinks == 4
NumResources == 3

NULL == 0

TABLES == <<"short_links", "resources">>

Records == 1..(NumShortLinks + NumResources)

\* The table a row belongs to.
TableOf(r) == IF r <= NumShortLinks THEN "short_links" ELSE "resources"

\* A URL is modelled by the set of host patterns it contains.
UrlOf(r) ==
  CASE r % 8 \in 1..4 -> {"quark.cn"}
    [] r % 8 = 5 -> {"pan.baidu.com"}
    [] r % 8 \in {6, 7} -> {"pan.xunlei.com"}
    [] OTHER -> {"example.com"}

Includes(url, s) == s \in url

getPlatform(url) ==
  IF Includes(url, "quark.cn") THEN "quark"
  ELSE IF Includes(url, "pan.baidu.com") \/ Includes(url, "yun.baidu.com") THEN "baidu"
  ELSE IF Includes(url, "pan.xunlei.com") THEN "xunlei"
  ELSE "null"

\* A counter for every platform getPlatform knows.
CountedPlatformsAll == {"quark", "baidu", "xunlei"}

\* The keys of platformErrorCounts: `platform in platformErrorCounts`.
CountedPlatforms == {"quark", "baidu"}

\* The verdicts checkLinkStatus can resolve with for a URL: "true", "false"
\* or "null" (valid === null).  Every network failure is caught inside it.
checkLinkStatus(url) ==
  IF Includes(url, "quark.cn") THEN {"true", "false", "null"}
  ELSE IF Includes(url, "pan.baidu.com") \/ Includes(url, "yun.baidu.com")
    THEN {"true", "false", "null"}
  ELSE {"null"}

\* What awaiting the store's update can do: apply the update, return an
\* error object (which checkBatch does not look at), or reject.
WriteOutcomes == {"ok", "error", "throw"}

VARIABLES
  store,                \* the rows: [Records -> [status, lastChecked]]
  now,                  \* the wall clock
  pc,                   \* where main is
  tableIdx, page, hasMore,
  allLinks, toCheck,
  i,                    \* index of the first link of the current wave
  task,                 \* per queue position: the async callback of checkBatch
  platformErrorCounts, skippedPlatforms,
  stats,                \* valid, expired, preserved, skipped, errors
  before,               \* the store as it was when the run started
  completions,          \* per platform, the completions of this run in order
  everChecked,          \* the rows the probe was ever called for
  readFailed,           \* the tables a read of which failed in this run
  exitCode,             \* "running", or the exit status of the process
  delays,               \* the pacing delays main has slept in this run
  waves,                \* the calls of checkBatch in this run
  probe                 \* one call of checkLinkStatus, step by step

vars == <<store, now, pc, tableIdx, page, hasMore, allLinks, toCheck, i,
          task, platformErrorCounts, skippedPlatforms, stats, before, completions,
          everChecked, readFailed, exitCode, delays, waves, probe>>

Min(a, b) == IF a < b THEN a ELSE b

\* ------------------------------------------------------------ the store
\* .order(checkedField, { ascending: true, nullsFirst: true }); rows with the
\* same value come in id order.
DbBefore(s, a, b) ==
  \/ s[a].lastChecked < s[b].lastChecked
  \/ s[a].lastChecked = s[b].lastChecked /\ a < b

RECURSIVE OrderedRows(_, _)
OrderedRows(s, rows) ==
  IF rows = {} THEN <<>>
  ELSE LET first == CHOOSE a \in rows : \A b \in rows \ {a} : DbBefore(s, a, b)
       IN <<first>> \o OrderedRows(s, rows \ {first})

TableRows(t) == {r \in Records : TableOf(r) = t}

\* .range(page * PAGE_SIZE, (page + 1) * PAGE_SIZE - 1)
RangeOf(rows, p) == SubSeq(rows, p * PAGE_SIZE + 1, Min((p + 1) * PAGE_SIZE, Len(rows)))

ReadRange(s, t, p) == RangeOf(OrderedRows(s, TableRows(t)), p)

\* ------------------------------------------------------------- the sort
\* new Date(lastChecked).getTime()
GetTime(ts) == ts

\* A comparator with the signs of the null cases swapped.
CompareLinksNullsLast(a, b) ==
  IF a.lastChecked = NULL /\ b.lastChecked = NULL THEN 0
  ELSE IF a.lastChecked = NULL THEN 1
  ELSE IF b.lastChecked = NULL THEN -1
  ELSE GetTime(a.lastChecked) - GetTime(b.lastChecked)

\* The comparator of allLinks.sort.
CompareLinks(a, b) ==
  IF a.lastChecked = NULL /\ b.lastChecked = NULL THEN 0
  ELSE IF a.lastChecked = NULL THEN -1
  ELSE IF b.lastChecked = NULL THEN 1
  ELSE GetTime(a.lastChecked) - GetTime(b.lastChecked)

\* Array.prototype.sort is stable: x goes behind every element that does not
\* compare greater.
RECURSIVE InsertLink(_, _)
InsertLink(x, s) ==
  IF s = <<>> THEN <<x>>
  ELSE IF CompareLinks(Head(s), x) <= 0 THEN <<Head(s)>> \o InsertLink(x, Tail(s))
  ELSE <<x>> \o s

RECURSIVE SortLinks(_)
SortLinks(s) ==
  IF s = <<>> THEN <<>>
  ELSE InsertLink(s[Len(s)], SortLinks(SubSeq(s, 1, Len(s) - 1)))

\* allLinks.slice(0, MAX_LINKS_PER_RUN)
SliceLinks(s) == SubSeq(s, 1, Min(Len(s), MAX_LINKS_PER_RUN))

\* The rows of a page that the for loop pushes: it stops at the cap.
PushRows(links, data) == SubSeq(data, 1, Min(Len(data), MAX_LINKS_PER_RUN - Len(links)))

LinkOf(s, r) == [id |-> r, lastChecked |-> s[r].lastChecked]

RowsToLinks(s, rows) == [k \in 1..Len(rows) |-> LinkOf(s, rows[k])]

\* ----------------------------------------------------------------- init
NoStats == [valid |-> 0, expired |-> 0, preserved |-> 0, skipped |-> 0, errors |-> 0]

IdleTask == [st |-> "pending", valid |-> "none", update |-> "none", checked |-> NULL,
             res |-> "none", trippedAtStart |-> FALSE, probed |-> FALSE, written |-> FALSE,
             trippedBefore |-> FALSE, trips |-> FALSE, warned |-> FALSE]

\* No call of checkLinkStatus is being followed.
NoProbe == [pc |-> "none"]

\* The position of a row in its table.
IndexOf(r) == IF r <= NumShortLinks THEN r ELSE r - NumShortLinks

\* A store in which earlier runs checked the first a rows of short_links and
\* the first b rows of resources, at time 1 or 2, and never the others.
InitStore(a, b) ==
  [r \in Records |->
     IF IndexOf(r) <= (IF TableOf(r) = "short_links" THEN a ELSE b)
     THEN [status |-> IF r % 2 = 0 THEN "valid" ELSE "expired",
           lastChecked |-> IF r % 3 = 0 THEN 1 ELSE 2]
     ELSE [status |-> "unchecked", lastChecked |-> NULL]]

\* The state of main when the process starts.
MainInit ==
  /\ \E a \in 0..NumShortLinks, b \in 0..NumResources : store = InitStore(a, b)
  /\ now = 3
  /\ pc = "table"
  /\ tableIdx = 1
  /\ page = 0
  /\ hasMore = TRUE
  /\ allLinks = <<>>
  /\ toCheck = <<>>
  /\ i = 0
  /\ task = <<>>
  /\ platformErrorCounts = [p \in CountedPlatforms |-> 0]
  /\ skippedPlatforms = {}
  /\ stats = NoStats
  /\ before = store
  /\ completions = [p \in {"quark", "baidu", "xunlei"} |-> <<>>]
  /\ everChecked = {}
  /\ readFailed = {}
  /\ exitCode = "running"
  /\ delays = 0
  /\ waves = 0

Init ==
  /\ MainInit
  /\ probe = NoProbe

\* -------------------------------------------------- main: building the queue
fetchVars == <<tableIdx, page, hasMore, allLinks>>
waveVars == <<toCheck, i, task, stats>>
breakerVars == <<platformErrorCounts, skippedPlatforms, completions>>
runVars == <<exitCode, delays, waves>>

\* The while condition of the paging loop.
MorePages == hasMore /\ Len(allLinks) < MAX_LINKS_PER_RUN

\* for (const table of TABLES): the count query, then page = 0, hasMore = true.
EnterTable ==
  /\ pc = "table"
  /\ tableIdx <= Len(TABLES)
  /\ page' = 0
  /\ hasMore' = TRUE
  /\ pc' = "page"
  /\ UNCHANGED <<store, now, tableIdx, allLinks, waveVars, breakerVars, before, everChecked, readFailed, runVars, probe>>

\* A read error that ends the reading of all tables.
AfterReadErrorStop(idx) == Len(TABLES) + 1

\* if (error) { console.error(...); break; }: the break leaves the paging
\* loop of this table only, the for loop goes on with the next table.
AfterReadError(idx) == idx + 1

\* One pass of the while loop: the read of a page fails (break), is empty
\* (break), or its rows are pushed up to the cap.
ReadPage(error) ==
  /\ pc = "page"
  /\ MorePages
  /\ LET data == ReadRange(store, TABLES[tableIdx], page) IN
     IF error THEN
       /\ pc' = "table"
       /\ tableIdx' = AfterReadError(tableIdx)
       /\ UNCHANGED <<page, hasMore, allLinks>>
     ELSE IF Len(data) = 0 THEN
       /\ hasMore' = FALSE
       /\ pc' = "table"
       /\ tableIdx' = tableIdx + 1
       /\ UNCHANGED <<page, allLinks>>
     ELSE
       /\ allLinks' = allLinks \o RowsToLinks(store, PushRows(allLinks, data))
       /\ hasMore' = (Len(data) = PAGE_SIZE)
       /\ page' = page + 1
       /\ UNCHANGED <<pc, tableIdx>>
  /\ readFailed' = IF error THEN readFailed \cup {TABLES[tableIdx]} ELSE readFailed
  /\ UNCHANGED <<store, now, waveVars, breakerVars, before, everChecked, runVars, probe>>

\* The while condition is false: on to the next table.
LeaveTable ==
  /\ pc = "page"
  /\ ~MorePages
  /\ pc' = "table"
  /\ tableIdx' = tableIdx + 1
  /\ UNCHANGED <<store, now, page, hasMore, allLinks, waveVars, breakerVars, before, everChecked, readFailed, runVars, probe>>

\* main().catch(console.error): when main returns, and also when it rejects,
\* nothing sets an exit status, so the process ends with status 0.
ExitAfterReturn == "0"

\* allLinks.sort, toCheck = allLinks.slice(0, MAX_LINKS_PER_RUN), the early
\* return on an empty queue, and the counters of the run.
BuildQueue ==
  /\ pc = "table"
  /\ tableIdx > Len(TABLES)
  /\ allLinks' = SortLinks(allLinks)
  /\ toCheck' = SliceLinks(allLinks')
  /\ task' = [k \in 1..Len(toCheck') |-> IdleTask]
  /\ stats' = NoStats
  /\ i' = 0
  /\ pc' = IF Len(toCheck') = 0 THEN "done" ELSE "wave"
  /\ exitCode' = IF Len(toCheck') = 0 THEN ExitAfterReturn ELSE exitCode
  /\ UNCHANGED <<store, now, tableIdx, page, hasMore, breakerVars, before, everChecked, readFailed,
                 delays, waves, probe>>

\* ------------------------------------------------------ checkBatch: one wave
\* The queue positions of the wave that starts at index i0 (0-based).
BatchOf(i0, len) == {k \in 1..len : i0 < k /\ k <= i0 + CONCURRENCY}

UrlAt(k) == UrlOf(toCheck[k].id)

PlatformAt(k) == getPlatform(UrlAt(k))

\* A skip test that forgets the skipped set.
IsSkippedNever(platform, skipped) == FALSE

\* if (platform && skippedPlatforms.has(platform))
IsSkipped(platform, skipped) == platform # "null" /\ platform \in skipped

\* A callback that tests the skipped set of the counted platforms only when
\* a record of the platform completes, not when it starts.
BeginTaskUnguarded(platform, skipped) ==
  [IdleTask EXCEPT !.st = "probing", !.probed = TRUE,
                   !.trippedAtStart = (platform \in skipped)]

\* The callback up to its first await: the skip test, else the probe is called.
BeginTask(platform, skipped) ==
  IF IsSkipped(platform, skipped)
  THEN [IdleTask EXCEPT !.st = "done", !.res = "skipped", !.trippedAtStart = TRUE]
  ELSE [IdleTask EXCEPT !.st = "probing", !.probed = TRUE,
                        !.trippedAtStart = (platform \in skipped)]

\* A wave whose skipped records still get their checked time written.
StartWaveStamping ==
  /\ pc = "wave"
  /\ task' = [k \in 1..Len(toCheck) |->
                IF k \in BatchOf(i, Len(toCheck))
                THEN BeginTask(PlatformAt(k), skippedPlatforms)
                ELSE task[k]]
  /\ store' = [r \in Records |->
                 IF \E k \in BatchOf(i, Len(toCheck)) :
                      toCheck[k].id = r /\ IsSkipped(PlatformAt(k), skippedPlatforms)
                 THEN [store[r] EXCEPT !.lastChecked = now]
                 ELSE store[r]]
  /\ everChecked' = everChecked \cup {toCheck[k].id : k \in {j \in DOMAIN task' : task'[j].probed}}
  /\ pc' = "inwave"
  /\ waves' = waves + 1
  /\ UNCHANGED <<now, fetchVars, toCheck, i, stats, breakerVars, before, readFailed,
                 exitCode, delays, probe>>

\* links.map(async ...) runs every callback of the wave up to its first await
\* before anything else can happen.
StartWave ==
  /\ pc = "wave"
  /\ task' = [k \in 1..Len(toCheck) |->
                IF k \in BatchOf(i, Len(toCheck))
                THEN BeginTask(PlatformAt(k), skippedPlatforms)
                ELSE task[k]]
  /\ everChecked' = everChecked \cup {toCheck[k].id : k \in {j \in DOMAIN task' : task'[j].probed}}
  /\ pc' = "inwave"
  /\ waves' = waves + 1
  /\ UNCHANGED <<store, now, fetchVars, toCheck, i, stats, breakerVars, before, readFailed,
                 exitCode, delays, probe>>

\* An update that writes a status whatever the verdict.
UpdateForAlways(valid) ==
  IF valid = "true" THEN "valid"
  ELSE IF valid = "false" THEN "expired"
  ELSE "unchecked"

\* The fields of the update that a verdict sends to the store; a status of
\* "none" is an update without the status field.
UpdateFor(valid) ==
  IF valid = "true" THEN "valid"
  ELSE IF valid = "false" THEN "expired"
  ELSE "none"

\* An inconclusive branch that does not send the checked field.
CheckedForDefinitive(valid, ts) == IF valid = "null" THEN NULL ELSE ts

\* The checked field of the update: new Date().toISOString(), in all branches.
CheckedFor(valid, ts) == ts

\* .update(fields).eq("id", link.id) on a row.
ApplyUpdate(row, status, checked) ==
  [status |-> IF status = "none" THEN row.status ELSE status,
   lastChecked |-> IF checked = NULL THEN row.lastChecked ELSE checked]

\* checkLinkStatus resolves: the branch is chosen and its update is sent, with
\* the time of that moment.  The clock does not advance within a wave; it
\* does while main sleeps between two waves and between two runs.
ProbeReturn(k, valid) ==
  /\ pc = "inwave"
  /\ k \in DOMAIN task
  /\ task[k].st = "probing"
  /\ valid \in checkLinkStatus(UrlAt(k))
  /\ task' = [task EXCEPT ![k].st = "writing", ![k].valid = valid,
                          ![k].update = UpdateFor(valid),
                          ![k].checked = CheckedFor(valid, now)]
  /\ UNCHANGED <<store, now, pc, fetchVars, toCheck, i, stats, breakerVars, before, everChecked, readFailed, runVars, probe>>

\* A counter that the dead branch forgets to reset.
CountAfterVerdictLiveOnly(count, valid) ==
  IF valid = "true" THEN 0 ELSE count + 1

\* A counter that stops at the threshold.
CountAfterVerdictCapped(count, valid) ==
  IF valid \in {"true", "false"} THEN 0
  ELSE IF count >= PLATFORM_ERROR_THRESHOLD THEN count ELSE count + 1

\* The counter of a platform after a completion without an exception.
CountAfterVerdict(count, valid) ==
  IF valid \in {"true", "false"} THEN 0 ELSE count + 1

\* The counter of a platform after an exception.
CountAfterException(count) == count + 1

\* A threshold test that does not look at the skipped set.
TripsNoGuard(count, platform, skipped) ==
  count >= PLATFORM_ERROR_THRESHOLD

\* if (platformErrorCounts[platform] >= THRESHOLD && !skippedPlatforms.has(platform))
Trips(count, platform, skipped) ==
  count >= PLATFORM_ERROR_THRESHOLD /\ platform \notin skipped

\* The result a callback returns.
ResultFor(valid, thrown) ==
  IF thrown THEN "error"
  ELSE IF valid = "true" THEN "valid"
  ELSE IF valid = "false" THEN "expired"
  ELSE "preserved"

\* A breaker that closes again on a definitive result.
SkippedAfterClosing(skipped, platform, count, valid, thrown) ==
  IF (thrown \/ valid = "null") /\ count >= PLATFORM_ERROR_THRESHOLD
  THEN skipped \cup {platform}
  ELSE IF thrown \/ valid = "null" THEN skipped ELSE skipped \ {platform}

\* The skipped set after a completion: only the null branch and the catch
\* block test the threshold.
SkippedAfter(skipped, platform, count, valid, thrown) ==
  IF (thrown \/ valid = "null") /\ Trips(count, platform, skipped)
  THEN skipped \cup {platform}
  ELSE skipped

CompletionKind(valid, thrown) ==
  IF thrown THEN "exception"
  ELSE IF valid = "null" THEN "inconclusive" ELSE "definitive"

\* The await of the update returns (or throws) and the callback runs to its
\* return: the counter of the platform, the threshold test, the result.
WriteReturn(k, outcome) ==
  /\ pc = "inwave"
  /\ k \in DOMAIN task
  /\ task[k].st = "writing"
  /\ LET r == toCheck[k].id
         p == PlatformAt(k)
         v == task[k].valid
         thrown == (outcome = "throw")
         counted == p \in CountedPlatforms
         count == IF ~counted THEN 0
                  ELSE IF thrown THEN CountAfterException(platformErrorCounts[p])
                  ELSE CountAfterVerdict(platformErrorCounts[p], v)
     IN
     /\ store' = IF outcome = "ok"
                 THEN [store EXCEPT ![r] = ApplyUpdate(store[r], task[k].update, task[k].checked)]
                 ELSE store
     /\ platformErrorCounts' = IF counted
                               THEN [platformErrorCounts EXCEPT ![p] = count]
                               ELSE platformErrorCounts
     /\ skippedPlatforms' = IF counted
                            THEN SkippedAfter(skippedPlatforms, p, count, v, thrown)
                            ELSE skippedPlatforms
     /\ completions' = IF p = "null" THEN completions
                       ELSE [completions EXCEPT ![p] = Append(@, CompletionKind(v, thrown))]
     /\ task' = [task EXCEPT ![k].st = "done", ![k].res = ResultFor(v, thrown),
                             ![k].written = (outcome = "ok"),
                             ![k].trippedBefore = (p \in skippedPlatforms),
                             ![k].trips = (skippedPlatforms' # skippedPlatforms),
                             ![k].warned = /\ counted
                                           /\ thrown \/ v = "null"
                                           /\ Trips(count, p, skippedPlatforms)]
  /\ UNCHANGED <<now, pc, fetchVars, toCheck, i, stats, before, everChecked, readFailed, runVars, probe>>

\* ------------------------------------------------------- main: the wave loop
\* The tally of the results of a wave.
CountRes(i0, res) ==
  Cardinality({k \in BatchOf(i0, Len(toCheck)) : task[k].res = res})

\* A tally without the branch for skipped.
TallyNoSkipped(s, i0) ==
  [valid |-> s.valid + CountRes(i0, "valid"),
   expired |-> s.expired + CountRes(i0, "expired"),
   preserved |-> s.preserved + CountRes(i0, "preserved"),
   skipped |-> s.skipped,
   errors |-> s.errors + CountRes(i0, "error")]

\* for (const r of results): one counter per result.
Tally(s, i0) ==
  [valid |-> s.valid + CountRes(i0, "valid"),
   expired |-> s.expired + CountRes(i0, "expired"),
   preserved |-> s.preserved + CountRes(i0, "preserved"),
   skipped |-> s.skipped + CountRes(i0, "skipped"),
   errors |-> s.errors + CountRes(i0, "error")]

\* A loop that sleeps after every wave, the last one too.
HasNextWaveAlways(i0, len) == i0 < len

\* for (let i = 0; i < toCheck.length; i += CONCURRENCY): is there a next wave.
HasNextWave(i0, len) == i0 + CONCURRENCY < len

\* A wave that is over as soon as one of its callbacks has returned.
WaveSettledAny(i0) ==
  \E k \in BatchOf(i0, Len(toCheck)) : task[k].st = "done"

\* A Promise.all that a callback returning error rejects: main never resumes.
WaveSettledNoError(i0) ==
  \A k \in BatchOf(i0, Len(toCheck)) : task[k].st = "done" /\ task[k].res # "error"

\* await Promise.all(...): every callback of the wave has returned.
WaveSettled(i0) ==
  \A k \in BatchOf(i0, Len(toCheck)) : task[k].st = "done"

\* checkBatch returns once the wave has settled; the results are tallied;
\* after the last wave comes the summary.
EndWave ==
  /\ pc = "inwave"
  /\ WaveSettled(i)
  /\ stats' = Tally(stats, i)
  /\ IF HasNextWave(i, Len(toCheck))
     THEN pc' = "pace" /\ i' = i
     ELSE pc' = "done" /\ i' = i + CONCURRENCY
  /\ exitCode' = IF HasNextWave(i, Len(toCheck)) THEN exitCode ELSE ExitAfterReturn
  /\ UNCHANGED <<store, now, fetchVars, toCheck, task, breakerVars, before, everChecked, readFailed,
                 delays, waves, probe>>

\* await new Promise((r) => setTimeout(r, 500)); then i += CONCURRENCY.
Pace ==
  /\ pc = "pace"
  /\ now' = now + 1
  /\ i' = i + CONCURRENCY
  /\ pc' = "wave"
  /\ delays' = delays + 1
  /\ UNCHANGED <<store, fetchVars, toCheck, task, stats, breakerVars, before, everChecked, readFailed,
                 exitCode, waves, probe>>

\* The program only compares timestamps, so a run behaves the same when the
\* timestamps of the store are renumbered in order: Rank is the number of
\* distinct timestamps of the store up to ts.
Stamps(s) == {s[r].lastChecked : r \in Records} \ {NULL}

Rank(s, ts) == IF ts = NULL THEN NULL ELSE Cardinality({u \in Stamps(s) : u <= ts})

Renumber(s) == [r \in Records |-> [s[r] EXCEPT !.lastChecked = Rank(s, @)]]

\* The next scheduled invocation: a new process, so the counters and the
\* skipped set start afresh and the rows are read again, at a later time.
StartRun ==
  /\ pc = "done"
  /\ store' = Renumber(store)
  /\ now' = Cardinality(Stamps(store)) + 1
  /\ pc' = "table"
  /\ tableIdx' = 1
  /\ page' = 0
  /\ hasMore' = TRUE
  /\ allLinks' = <<>>
  /\ toCheck' = <<>>
  /\ i' = 0
  /\ task' = <<>>
  /\ stats' = NoStats
  /\ platformErrorCounts' = [p \in CountedPlatforms |-> 0]
  /\ skippedPlatforms' = {}
  /\ completions' = [p \in DOMAIN completions |-> <<>>]
  /\ before' = store'
  /\ readFailed' = {}
  /\ exitCode' = "running"
  /\ delays' = 0
  /\ waves' = 0
  /\ UNCHANGED <<everChecked, probe>>

Next ==
  \/ EnterTable
  \/ \E error \in BOOLEAN : ReadPage(error)
  \/ LeaveTable
  \/ BuildQueue
  \/ StartWave
  \/ \E k \in 1..MAX_LINKS_PER_RUN, valid \in {"true", "false", "null"} :
       ProbeReturn(k, valid)
  \/ \E k \in 1..MAX_LINKS_PER_RUN, outcome \in WriteOutcomes : WriteReturn(k, outcome)
  \/ EndWave
  \/ Pace

\* One run of the program, from any store.
Spec == Init /\ [][Next]_vars

\* A run that starts from a store no run has checked yet, or from one whose
\* rows were all checked before.
InitTerm ==
  /\ Init
  /\ store \in {InitStore(0, 0), InitStore(NumShortLinks, NumResources)}

\* One run in which main and every callback keep being scheduled, and every
\* awaited read, probe and update settles.
SpecTerm == InitTerm /\ [][Next]_vars /\ WF_vars(Next)

\* Repeated runs in which no read and no write fails and every probe is
\* definitive at once: each of these behaviours is one of the program.
NextRuns ==
  \/ EnterTable
  \/ ReadPage(FALSE)
  \/ LeaveTable
  \/ BuildQueue
  \/ StartWave
  \/ \E k \in 1..MAX_LINKS_PER_RUN : ProbeReturn(k, "true")
  \/ \E k \in 1..MAX_LINKS_PER_RUN : WriteReturn(k, "ok")
  \/ EndWave
  \/ Pace
  \/ StartRun

SpecRuns == Init /\ [][NextRuns]_vars /\ WF_vars(NextRuns)

\* ------------------------------------------- checkLinkStatus, step by step
mainVars == <<store, now, pc, tableIdx, page, hasMore, allLinks, toCheck, i, task,
              platformErrorCounts, skippedPlatforms, stats, before, completions,
              everChecked, readFailed, exitCode, delays, waves>>

HostPatterns == {"quark.cn", "pan.baidu.com", "yun.baidu.com", "pan.xunlei.com"}

\* A URL as checkLinkStatus sees it: the host patterns it contains, whether
\* /\/s\/([a-zA-Z0-9]+)/ matches it and whether `new URL(url)` accepts it.
ProbeUrls == [hosts : SUBSET HostPatterns, shareId : BOOLEAN, absolute : BOOLEAN]

\* How an awaited fetchWithTimeout settles: with a response (of any HTTP
\* status), rejected by the abort of the timer, or rejected by the network.
FetchOutcomes == {"response", "AbortError", "TypeError"}

\* The `code` of a JSON body, as text; "undefined" is a body without one.
TokenCodes == {"0", "41003", "41006", "41004", "undefined"}

\* What `await tokenRes.json()` gives: a rejection (the body is not JSON),
\* null, or an object with or without code, message and data.stoken.
TokenBodies ==
  [kind : {"invalid", "null", "object"}, code : TokenCodes,
   message : {"", "share not found"}, stoken : BOOLEAN]

\* What `await detailRes.json()` gives.
DetailBodies ==
  [kind : {"invalid", "null", "object"}, code : {"0", "undefined"},
   metadata : BOOLEAN, total : 0..1]

\* A Location header is modelled by the set of fragments it contains; the
\* empty set is the absent (or empty) header.
BaiduResponses ==
  [status : {200, 302, 404}, location : {{}, {"/share"}, {"/share", "error"}}]

\* A call of checkLinkStatus that has not run yet.
Calling(url) ==
  [pc |-> "called", url |-> url, valid |-> "none", reason |-> "",
   failure |-> "none", tokenCode |-> "none"]

\* return { valid, reason }
Return(p, valid, reason) == [p EXCEPT !.pc = "returned", !.valid = valid, !.reason = reason]

\* A catch block that only handles the timeout.
CatchRethrow(p, err) ==
  IF err = "AbortError"
  THEN Return([p EXCEPT !.failure = err], "null", "check timed out")
  ELSE [p EXCEPT !.pc = "raised", !.failure = err]

\* The catch block of checkLinkStatus.
Catch(p, err) ==
  IF err = "AbortError"
  THEN Return([p EXCEPT !.failure = err], "null", "check timed out")
  ELSE Return([p EXCEPT !.failure = err], "null", "check failed")

\* From the entry to the first await, or to the return when there is none.
ProbeEnter ==
  /\ probe.pc = "called"
  /\ probe' =
       IF Includes(probe.url.hosts, "quark.cn") THEN
         IF ~probe.url.shareId THEN Return(probe, "false", "invalid link format")
         ELSE IF ~probe.url.absolute THEN Catch(probe, "TypeError")
         ELSE [probe EXCEPT !.pc = "tokenFetch"]
       ELSE IF Includes(probe.url.hosts, "pan.baidu.com")
               \/ Includes(probe.url.hosts, "yun.baidu.com")
         THEN [probe EXCEPT !.pc = "baiduFetch"]
       ELSE IF Includes(probe.url.hosts, "pan.xunlei.com")
         THEN Return(probe, "null", "xunlei not supported")
       ELSE Return(probe, "null", "unsupported drive type")
  /\ UNCHANGED mainVars

\* The token request settles.
TokenFetchSettles(outcome) ==
  /\ probe.pc = "tokenFetch"
  /\ probe' = IF outcome = "response" THEN [probe EXCEPT !.pc = "tokenJson"]
              ELSE Catch(probe, outcome)
  /\ UNCHANGED mainVars

\* The verdict read off the token response, or the detail request.
TokenData(p, body) ==
  IF body.kind = "invalid" THEN Catch(p, "SyntaxError")
  ELSE IF body.kind = "null" THEN Catch(p, "TypeError")
  ELSE LET q == [p EXCEPT !.tokenCode = body.code] IN
    IF body.code = "41003" THEN Return(q, "false", "share expired")
    ELSE IF body.code = "41006" THEN Return(q, "false", "share cancelled")
    ELSE IF body.code # "0"
      THEN Return(q, "false", IF body.message # "" THEN body.message ELSE "link invalid")
    ELSE IF body.stoken THEN [q EXCEPT !.pc = "detailFetch"]
    ELSE Return(q, "true", "")

\* The body of the token response has been read.
TokenJson(body) ==
  /\ probe.pc = "tokenJson"
  /\ probe' = TokenData(probe, body)
  /\ UNCHANGED mainVars

\* The detail request settles.
DetailFetchSettles(outcome) ==
  /\ probe.pc = "detailFetch"
  /\ probe' = IF outcome = "response" THEN [probe EXCEPT !.pc = "detailJson"]
              ELSE Catch(probe, outcome)
  /\ UNCHANGED mainVars

\* detailData.metadata?._total || 0
TotalOf(body) == IF body.metadata THEN body.total ELSE 0

\* The verdict read off the detail response.
DetailData(p, body) ==
  IF body.kind = "invalid" THEN Catch(p, "SyntaxError")
  ELSE IF body.kind = "null" THEN Catch(p, "TypeError")
  ELSE IF body.code = "0" /\ TotalOf(body) = 0 THEN Return(p, "false", "file deleted")
  ELSE Return(p, "true", "")

\* The body of the detail response has been read.
DetailJson(body) ==
  /\ probe.pc = "detailJson"
  /\ probe' = DetailData(probe, body)
  /\ UNCHANGED mainVars

\* The verdict read off the response to the request of the share page.
BaiduVerdict(p, res) ==
  IF res.status = 200 /\ res.location = {} THEN Return(p, "false", "share expired")
  ELSE IF Includes(res.location, "error") THEN Return(p, "false", "link no longer valid")
  ELSE Return(p, "true", "")

\* The request of the share page settles.
BaiduFetchSettles(outcome, res) ==
  /\ probe.pc = "baiduFetch"
  /\ probe' = IF outcome = "response" THEN BaiduVerdict(probe, res)
              ELSE Catch(probe, outcome)
  /\ UNCHANGED mainVars

InitProbe ==
  /\ MainInit
  /\ store = InitStore(0, 0)
  /\ \E url \in ProbeUrls : probe = Calling(url)

NextProbe ==
  \/ ProbeEnter
  \/ \E outcome \in FetchOutcomes : TokenFetchSettles(outcome)
  \/ \E body \in TokenBodies : TokenJson(body)
  \/ \E outcome \in FetchOutcomes : DetailFetchSettles(outcome)
  \/ \E body \in DetailBodies : DetailJson(body)
  \/ \E outcome \in FetchOutcomes, res \in BaiduResponses : BaiduFetchSettles(outcome, res)

\* One call of checkLinkStatus for any URL, with the network doing anything.
SpecProbe == InitProbe /\ [][NextProbe]_vars

\* ==================================================================== claims
RecordAt(k) == toCheck[k].id

\* The wave a queue position belongs to.
WaveOf(k) == (k - 1) \div CONCURRENCY

Done(k) == task[k].st = "done"

\* C1: an inconclusive verdict (valid === null) sends an update without the
\* status field and leaves the status of the row as it was when the run
\* started; a live verdict sends status = valid and a dead verdict sends
\* status = expired, and the row has that status once the update is applied.
C1_StatusOnlyOnDefinitive ==
  \A k \in DOMAIN task :
    /\ task[k].st \in {"writing", "done"} /\ task[k].probed =>
         /\ task[k].valid = "true" => task[k].update = "valid"
         /\ task[k].valid = "false" => task[k].update = "expired"
         /\ task[k].valid = "null" => task[k].update = "none"
    /\ task[k].valid \in {"null", "none"} =>
         store[RecordAt(k)].status = before[RecordAt(k)].status
    /\ task[k].written /\ task[k].valid = "true" => store[RecordAt(k)].status = "valid"
    /\ task[k].written /\ task[k].valid = "false" => store[RecordAt(k)].status = "expired"

\* An inconclusive check of a row with a definitive status was written, next
\* to a live check that changed the status of its row.
C1_Witness ==
  /\ \E k \in DOMAIN task :
       /\ task[k].valid = "null" /\ task[k].written
       /\ before[RecordAt(k)].status \in {"valid", "expired"}
       /\ store[RecordAt(k)].lastChecked # before[RecordAt(k)].lastChecked
  /\ \E k \in DOMAIN task :
       /\ task[k].valid = "true" /\ task[k].written
       /\ before[RecordAt(k)].status # "valid"

\* C2: a record whose callback starts when its platform is in the skipped
\* set is reported skipped and the probe is not called for it.
C2_SkippedAfterTrip ==
  \A k \in DOMAIN task :
    task[k].st # "pending" /\ task[k].trippedAtStart =>
      /\ task[k].st = "done"
      /\ task[k].res = "skipped"
      /\ ~task[k].probed
      /\ task[k].valid = "none"

\* A platform tripped in the first wave and a record of it came up in the second.
C2_Witness ==
  \E k \in DOMAIN task :
    /\ task[k].trippedAtStart
    /\ task[k].res = "skipped"
    /\ PlatformAt(k) \in skippedPlatforms
    /\ WaveOf(k) = 1

\* C3 (as claimed): once a completion has tripped a platform, every record of
\* that platform that completes afterwards, in the same wave or a later one,
\* is reported skipped.
C3_RemainingSkipped ==
  \A j, k \in DOMAIN task :
    /\ j # k
    /\ task[j].trips
    /\ PlatformAt(j) = PlatformAt(k)
    /\ Done(k)
    /\ (task[k].trippedBefore \/ WaveOf(k) > WaveOf(j))
    => task[k].res = "skipped"

\* C3 (amended): the records of the platform in later waves are reported
\* skipped without a probe; those of the wave in which it tripped, and of
\* earlier waves, were started before the trip: the probe was called for each
\* of them and none is reported skipped.
C3_LaterWavesSkipped ==
  \A j, k \in DOMAIN task :
    /\ j # k
    /\ task[j].trips
    /\ PlatformAt(j) = PlatformAt(k)
    /\ task[k].st # "pending"
    => /\ WaveOf(k) > WaveOf(j) => task[k].res = "skipped" /\ ~task[k].probed
       /\ WaveOf(k) <= WaveOf(j) => task[k].probed /\ task[k].res # "skipped"

\* Three records of one platform in the first wave: the second inconclusive
\* completion trips it, the third completes after that as preserved, and the
\* record of the platform in the second wave is skipped.
C3_Witness ==
  \E j, k, m \in DOMAIN task :
    /\ task[j].trips
    /\ PlatformAt(j) = PlatformAt(k) /\ PlatformAt(j) = PlatformAt(m)
    /\ WaveOf(j) = 0 /\ WaveOf(k) = 0 /\ WaveOf(m) = 1
    /\ task[k].trippedBefore /\ task[k].res = "preserved"
    /\ task[m].res = "skipped"

\* The number of entries at the end of a log that are not definitive.
RECURSIVE TrailingFailures(_)
TrailingFailures(log) ==
  IF log = <<>> \/ log[Len(log)] = "definitive" THEN 0
  ELSE 1 + TrailingFailures(SubSeq(log, 1, Len(log) - 1))

\* The log holds n entries in a row none of which is definitive.
HasFailureRun(log, n) ==
  \E a \in 1..Len(log) :
    /\ a + n - 1 <= Len(log)
    /\ \A b \in a..(a + n - 1) : log[b] # "definitive"

\* C4: the counter of a counted platform is the number of inconclusive or
\* exception completions since its last definitive completion, and the
\* platform is tripped exactly when threshold-many of them occurred in a row.
C4_TripsExactlyAtThreshold ==
  \A p \in CountedPlatforms :
    /\ platformErrorCounts[p] = TrailingFailures(completions[p])
    /\ p \in skippedPlatforms <=> HasFailureRun(completions[p], PLATFORM_ERROR_THRESHOLD)

\* Threshold-many failures, but with a definitive completion between them:
\* the platform is not tripped.
C4_Witness ==
  \E p \in CountedPlatforms :
    /\ Cardinality({a \in 1..Len(completions[p]) : completions[p][a] # "definitive"})
         >= PLATFORM_ERROR_THRESHOLD
    /\ completions[p][Len(completions[p])] # "definitive"
    /\ \E a \in 1..Len(completions[p]) : completions[p][a] = "exception"
    /\ p \notin skippedPlatforms

\* C5: within a run no platform leaves the skipped set.
C5_TrippedMonotonic == [][skippedPlatforms \subseteq skippedPlatforms']_vars

\* A tripped platform whose counter a later definitive completion reset.
C5_Witness ==
  \E p \in skippedPlatforms :
    /\ platformErrorCounts[p] = 0
    /\ completions[p][Len(completions[p])] = "definitive"

\* C6 (as claimed): every record the run has dealt with has a lastChecked
\* strictly greater than at the start of the run.
C6_EveryRecordAdvances ==
  \A k \in DOMAIN task :
    Done(k) => store[RecordAt(k)].lastChecked > before[RecordAt(k)].lastChecked

\* C6 (amended): whatever the verdict, the update of a probed record carries
\* the time of the attempt, and once it is applied the lastChecked of the row
\* is that time, strictly greater than before; a skipped record and a record
\* whose update was not applied keep their lastChecked.
C6_CheckedAdvances ==
  \A k \in DOMAIN task :
    /\ task[k].st = "writing" => task[k].checked = now
    /\ task[k].written =>
         /\ store[RecordAt(k)].lastChecked = task[k].checked
         /\ store[RecordAt(k)].lastChecked > before[RecordAt(k)].lastChecked
    /\ ~task[k].written => store[RecordAt(k)].lastChecked = before[RecordAt(k)].lastChecked

\* A row checked by an earlier run gets an inconclusive verdict and its
\* lastChecked moves, while a skipped row of the same run keeps its own.
C6_Witness ==
  /\ \E k \in DOMAIN task :
       /\ task[k].valid = "null" /\ task[k].written
       /\ before[RecordAt(k)].lastChecked # NULL
       /\ store[RecordAt(k)].lastChecked > before[RecordAt(k)].lastChecked
  /\ \E k \in DOMAIN task :
       /\ task[k].res = "skipped"
       /\ store[RecordAt(k)].lastChecked = before[RecordAt(k)].lastChecked

\* C7 (as claimed): in repeated runs in which nothing fails, every row of
\* every table is eventually checked.
C7_EveryRecordEventuallyChecked == \A r \in Records : <>(r \in everChecked)

\* a is staler than b: never checked, or checked strictly earlier.
Staler(a, b) == a < b

QueueIds == {toCheck[k].id : k \in DOMAIN toCheck}

\* C8 (as claimed): when no read failed, the queue holds the run-cap stalest
\* rows of all tables: it is as long as the cap allows and no row left out is
\* staler than a row in it.
C8_QueueIsStalest ==
  pc \in {"wave", "inwave", "pace"} /\ readFailed = {} =>
    /\ Len(toCheck) = Min(MAX_LINKS_PER_RUN, Cardinality(Records))
    /\ \A r \in Records \ QueueIds :
         \A k \in DOMAIN toCheck : ~Staler(before[r].lastChecked, toCheck[k].lastChecked)

\* C9: in the queue every never-checked record precedes every checked one,
\* the checked ones are in ascending order of their timestamp, and the queue
\* is no longer than the run cap.
C9_QueueOrdered ==
  /\ Len(toCheck) <= MAX_LINKS_PER_RUN
  /\ \A j, k \in DOMAIN toCheck :
       j < k =>
         /\ toCheck[k].lastChecked = NULL => toCheck[j].lastChecked = NULL
         /\ toCheck[j].lastChecked # NULL =>
              GetTime(toCheck[j].lastChecked) <= GetTime(toCheck[k].lastChecked)

\* A full queue in which a row of the second table was sorted in front of a
\* row of the first, with never-checked rows and two different timestamps.
C9_Witness ==
  /\ Len(toCheck) = MAX_LINKS_PER_RUN
  /\ \E j, k \in DOMAIN toCheck :
       /\ j < k
       /\ TableOf(toCheck[j].id) = "resources"
       /\ TableOf(toCheck[k].id) = "short_links"
  /\ \E j, k \in DOMAIN toCheck :
       /\ toCheck[j].lastChecked # NULL
       /\ toCheck[j].lastChecked < toCheck[k].lastChecked
  /\ \E j \in DOMAIN toCheck : toCheck[j].lastChecked = NULL

InFlight == {k \in DOMAIN task : task[k].st \in {"probing", "writing"}}

\* C10: a record of a wave is started only when every record of the earlier
\* waves has completed; the records in flight all belong to the current wave
\* and are at most as many as the wave size.
C10_WavesSequential ==
  /\ \A j, k \in DOMAIN task :
       WaveOf(j) < WaveOf(k) /\ task[k].st # "pending" => task[j].st = "done"
  /\ InFlight \subseteq BatchOf(i, Len(toCheck))
  /\ \A j, k \in InFlight : WaveOf(j) = WaveOf(k)
  /\ Cardinality(InFlight) <= CONCURRENCY

\* The second wave is in flight, after a first wave that was full.
C10_Witness ==
  /\ i = CONCURRENCY
  /\ InFlight # {}
  /\ Cardinality({k \in DOMAIN task : WaveOf(k) = 0 /\ Done(k)}) = CONCURRENCY

\* C11 (as claimed): a record whose update was not applied, because the
\* store returned an error or the await was rejected, is reported as error.
C11_WriteFailureIsError ==
  \A k \in DOMAIN task :
    Done(k) /\ task[k].probed /\ ~task[k].written => task[k].res = "error"

TableNames == {TABLES[t] : t \in DOMAIN TABLES}

QueueBuilt == pc \in {"wave", "inwave", "pace", "done"}

\* The queue positions that hold rows of a table.
RowsInQueue(t) == {k \in DOMAIN toCheck : TableOf(toCheck[k].id) = t}

\* C12: when a read of one table failed and no read of another table did, the
\* rows of the other table fill the queue as far as the cap leaves room
\* beside the rows read from the failed table, and at the end of the run each
\* of them has an outcome.
C12_OtherSourceStillChecked ==
  QueueBuilt =>
    \A t \in readFailed, u \in TableNames \ readFailed :
      /\ Cardinality(RowsInQueue(u)) =
           Min(Cardinality(TableRows(u)), MAX_LINKS_PER_RUN - Cardinality(RowsInQueue(t)))
      /\ RowsInQueue(u) # {}
      /\ pc = "done" => \A k \in RowsInQueue(u) : Done(k) /\ task[k].res # "none"

\* The read of short_links failed; rows of resources were probed and written.
C12_Witness ==
  /\ pc = "done"
  /\ readFailed = {"short_links"}
  /\ RowsInQueue("short_links") # {}
  /\ \E k \in RowsInQueue("resources") : task[k].probed /\ task[k].written

\* The first read of every table failed: no candidate record was read.
ReadFailedEntirely == readFailed = TableNames /\ allLinks = <<>>

\* C13 (as claimed): the process exits with a non-zero status exactly when
\* the initial read failed entirely.
C13_ExitStatus ==
  pc = "done" => (exitCode # "0" <=> ReadFailedEntirely)

\* The counter the breaker keeps for a platform, 0 when it keeps none.
CounterOf(p) == IF p \in DOMAIN platformErrorCounts THEN platformErrorCounts[p] ELSE 0

\* C14 (as claimed): the inconclusive verdicts of xunlei are counted like
\* those of a counted platform: its counter is the number of its trailing
\* non-definitive completions, and threshold-many in a row trip it.
C14_XunleiCounted ==
  /\ CounterOf("xunlei") = TrailingFailures(completions["xunlei"])
  /\ HasFailureRun(completions["xunlei"], PLATFORM_ERROR_THRESHOLD)
       => "xunlei" \in skippedPlatforms

\* C14 (amended): the breaker keeps no counter for xunlei and never trips it:
\* every xunlei record is probed, none is skipped, its completion trips
\* nothing and it is reported preserved (error when the update is rejected).
C14_XunleiNotCounted ==
  /\ DOMAIN platformErrorCounts = {"quark", "baidu"}
  /\ "xunlei" \notin skippedPlatforms
  /\ \A k \in DOMAIN task :
       task[k].st # "pending" /\ PlatformAt(k) = "xunlei" =>
         /\ task[k].probed
         /\ ~task[k].trips
         /\ Done(k) => task[k].res \in {"preserved", "error"}

\* Threshold-many inconclusive xunlei completions in a row, in two waves, and
\* the xunlei record of the second wave was still probed.
C14_Witness ==
  /\ HasFailureRun(completions["xunlei"], PLATFORM_ERROR_THRESHOLD)
  /\ \E j, k \in DOMAIN task :
       /\ PlatformAt(j) = "xunlei" /\ PlatformAt(k) = "xunlei"
       /\ WaveOf(j) = 0 /\ WaveOf(k) = 1
       /\ task[j].res = "preserved" /\ task[k].res = "preserved"
       /\ task[k].probed

\* C15 (as claimed): for quark the token response with the expired or the
\* revoked code gives dead, any other non-success code gives dead, and a
\* response without a code gives inconclusive.
C15_TokenMapping ==
  probe.pc = "returned" /\ probe.tokenCode # "none" =>
    /\ probe.tokenCode \in {"41003", "41006", "41004"} => probe.valid = "false"
    /\ probe.tokenCode = "undefined" => probe.valid = "null"

\* C16: checkLinkStatus never raises; whatever it returns is a verdict its
\* URL allows, and when a request was aborted or rejected, a body was not
\* JSON or null, or `new URL` threw, the verdict is inconclusive with a reason.
C16_ProbeNeverRaises ==
  /\ probe.pc # "raised"
  /\ probe.pc = "returned" =>
       /\ probe.valid \in checkLinkStatus(probe.url.hosts)
       /\ probe.failure # "none" => probe.valid = "null" /\ probe.reason # ""

\* The detail request of a quark link failed after the token was accepted.
C16_Witness ==
  /\ probe.pc = "returned"
  /\ probe.tokenCode = "0"
  /\ probe.failure = "TypeError"
  /\ probe.valid = "null"

\* The records of a platform that completed without a definitive verdict,
\* those that completed with one, and those whose completion printed the
\* warning of lines 267 and 279.
FailedOf(p) ==
  {k \in DOMAIN task : Done(k) /\ task[k].res \in {"preserved", "error"} /\ PlatformAt(k) = p}

DefinitiveOf(p) ==
  {k \in DOMAIN task : Done(k) /\ task[k].res \in {"valid", "expired"} /\ PlatformAt(k) = p}

WarnedOf(p) == {k \in DOMAIN task : task[k].warned /\ PlatformAt(k) = p}

\* C17: in whatever order the records of a wave complete, no increment of a
\* platform's counter is lost (as long as nothing reset it, the counter is
\* the number of its failed completions) and the warning of a platform is
\* printed once if it is tripped and never otherwise.
C17_BreakerSerialized ==
  \A p \in CountedPlatforms :
    LET failed == Cardinality(FailedOf(p)) IN
    /\ Cardinality(WarnedOf(p)) = IF p \in skippedPlatforms THEN 1 ELSE 0
    /\ platformErrorCounts[p] <= failed
    /\ DefinitiveOf(p) = {} => platformErrorCounts[p] = failed

\* Three quark records of the first wave all failed: the counter is 3, past
\* the threshold, and one of the three printed the warning.
C17_Witness ==
  /\ platformErrorCounts["quark"] = CONCURRENCY
  /\ PLATFORM_ERROR_THRESHOLD < CONCURRENCY
  /\ \A k \in FailedOf("quark") : WaveOf(k) = 0
  /\ Cardinality(FailedOf("quark")) = CONCURRENCY
  /\ Cardinality(WarnedOf("quark")) = 1

\* C18: the delay is taken once between two consecutive waves (while the
\* n-th wave runs, n - 1 delays were taken), only when every record of the
\* waves so far has completed and none of a later wave has started, only
\* when a further wave follows, and not after the last wave.
C18_PacingBetweenWaves ==
  /\ pc = "inwave" => delays = waves - 1
  /\ pc = "pace" =>
       /\ delays = waves - 1
       /\ i + CONCURRENCY < Len(toCheck)
       /\ \A k \in DOMAIN task : k <= i + CONCURRENCY => Done(k)
       /\ \A k \in DOMAIN task : k > i + CONCURRENCY => task[k].st = "pending"
  /\ pc = "wave" /\ waves > 0 =>
       /\ delays = waves
       /\ i < Len(toCheck)
       /\ InFlight = {}
  /\ pc = "done" /\ waves > 0 => delays = waves - 1

\* A run of two waves is over and slept once.
C18_Witness ==
  /\ pc = "done"
  /\ waves = 2
  /\ delays = 1
  /\ Len(toCheck) > CONCURRENCY

\* ceil(n / CONCURRENCY)
WavesFor(n) == (n + CONCURRENCY - 1) \div CONCURRENCY

\* C19: a run over a non-empty queue reaches the summary, whatever the
\* outcomes of its records, and has then run ceil(n / CONCURRENCY) waves.
C19_RunReachesSummary ==
  /\ [](QueueBuilt => waves <= WavesFor(Len(toCheck)))
  /\ [](pc = "done" /\ Len(toCheck) > 0 => waves = WavesFor(Len(toCheck)))
  /\ (QueueBuilt /\ Len(toCheck) > 0) ~> (pc = "done")

\* The summary of a run of two waves with an exception, an inconclusive
\* verdict and a record skipped after the trip.
C19_Witness ==
  /\ pc = "done"
  /\ waves = WavesFor(Len(toCheck))
  /\ waves > 1
  /\ \E j, k, l \in DOMAIN task :
       task[j].res = "error" /\ task[k].res = "preserved" /\ task[l].res = "skipped"

SumStats == stats.valid + stats.expired + stats.preserved + stats.skipped + stats.errors

\* The queue positions whose wave has been tallied.
Tallied ==
  {k \in DOMAIN task :
     k <= (IF pc = "pace" THEN i + CONCURRENCY ELSE i)}

TalliedAs(res) == Cardinality({k \in Tallied : task[k].res = res})

\* C20: every completed record has one of the five outcomes, each counter is
\* the number of tallied records with its outcome, after each wave the five
\* counters sum to the number of records of the waves completed so far, and
\* at the summary to the length of the queue.
C20_EveryRecordOneOutcome ==
  /\ \A k \in DOMAIN task :
       Done(k) => task[k].res \in {"valid", "expired", "preserved", "skipped", "error"}
  /\ stats = [valid |-> TalliedAs("valid"), expired |-> TalliedAs("expired"),
              preserved |-> TalliedAs("preserved"), skipped |-> TalliedAs("skipped"),
              errors |-> TalliedAs("error")]
  /\ pc \in {"wave", "inwave"} => SumStats = i
  /\ pc = "pace" => SumStats = i + CONCURRENCY
  /\ pc = "done" => SumStats = Len(toCheck)

\* After a first wave of a live, a dead and a failed record, before the
\* second wave.
C20_Witness ==
  /\ pc = "pace"
  /\ stats.valid > 0 /\ stats.expired > 0 /\ stats.errors > 0
  /\ SumStats = CONCURRENCY

\* The record at position k is reported skipped in this step.
SkippedNow(k) ==
  /\ k \in DOMAIN task' /\ task'[k].res = "skipped"
  /\ k \notin DOMAIN task \/ task[k].res # "skipped"

\* C21: a record reported skipped was not probed and sent no update, its row
\* is as it was when the run started, its processing neither tripped a
\* platform nor printed the warning, and the step that reports it skipped
\* leaves the store, every counter and the skipped set as they were.
C21_SkippedIsFrame ==
  /\ [](\A k \in DOMAIN task :
          task[k].res = "skipped" =>
            /\ ~task[k].probed /\ ~task[k].written
            /\ ~task[k].trips /\ ~task[k].warned
            /\ store[RecordAt(k)] = before[RecordAt(k)])
  /\ [][(\E k \in 1..MAX_LINKS_PER_RUN : SkippedNow(k)) =>
          UNCHANGED <<store, platformErrorCounts, skippedPlatforms>>]_vars

\* A record checked by an earlier run is skipped; the run is over and the
\* records of its platform that were in flight took the counter past the
\* threshold.
C21_Witness ==
  /\ pc = "done"
  /\ \E k \in DOMAIN task :
       /\ task[k].res = "skipped"
       /\ before[RecordAt(k)].status = "valid"
       /\ platformErrorCounts[PlatformAt(k)] > PLATFORM_ERROR_THRESHOLD

\* The record at position k completes in this step.
CompletesNow(k) ==
  /\ k \in DOMAIN task /\ task[k].st = "writing"
  /\ task'[k].st = "done"

====
